---------------------------- MODULE Spec2Model ----------------------------
(***************************************************************************)
(* Model of the thermal-radiative engine of firepit_emitter                *)
(* (src/src/model/calc.ts, defaults.ts, schema.ts) and of the way the      *)
(* callers drive it: a configuration is built from a preset by replacing   *)
(* fields, handed to calcResults, and the results record is read.          *)
(*                                                                         *)
(* Numbers.  The program computes in IEEE-754 doubles.  Here a number x is *)
(* the integer trunc(x * ONE): a decimal fixed-point value with four       *)
(* fractional digits.  Every arithmetic operator below rounds its exact    *)
(* result toward zero to that resolution, as the floating-point operation  *)
(* rounds its exact result to the nearest double.  Math.exp and Math.pow   *)
(* are evaluated by range reduction and power series with two guard        *)
(* digits (scale TONE).  TLC's integers are 32 bits wide, so products are  *)
(* formed piecewise and never exceed that width.                           *)
(***************************************************************************)
EXTENDS Integers, Sequences, FiniteSets, TLC

VARIABLES
  cfg,      \* the configuration handed to the engine
  results,  \* what calcResults returned for it
  pc,       \* "call" before the engine has run on cfg, "done" after
  heap,     \* the arrays by address, where calls are followed by reference
  returned  \* per finished call: its configuration object and the addresses
            \* of the arrays of its results object

vars == <<cfg, results, pc, heap, returned>>

---------------------------------------------------------------------------
(* Fixed-point arithmetic *)

ONE == 100 * 100        \* the number 1
GUARD == 10 * 10        \* TONE = GUARD * ONE
TONE == GUARD * ONE     \* the number 1 at the internal scale of Exp and Ln
TSPLIT == 10 * 100      \* TONE = TSPLIT * TSPLIT

Abs(a) == IF a < 0 THEN -a ELSE a

Sgn(a) == IF a < 0 THEN -1 ELSE 1

\* Math.max, Math.min
Max(a, b) == IF a >= b THEN a ELSE b

Min(a, b) == IF a <= b THEN a ELSE b

\* trunc(a * b / c) for c > 0, formed without leaving 32 bits (|b| * c < 2^31)
MulDiv(a, b, c) ==
  Sgn(a) * Sgn(b) *
    ((Abs(a) \div c) * Abs(b) + ((Abs(a) % c) * Abs(b)) \div c)

\* a * b of two numbers; b is the factor of small magnitude (|b| < 21 * ONE)
MulS(a, b) == MulDiv(a, b, ONE)

\* long division: the quotient q and remainder r of a / b carried on by n
\* more decimal digits
RECURSIVE LongDiv(_, _, _, _)
LongDiv(q, r, b, n) ==
  IF n = 0 THEN q
  ELSE LongDiv(q * 10 + (r * 10) \div b, (r * 10) % b, b, n - 1)

\* a / b of two numbers, b # 0
DivS(a, b) ==
  Sgn(a) * Sgn(b) * LongDiv(Abs(a) \div Abs(b), Abs(a) % Abs(b), Abs(b), 4)

\* a / b at the internal scale, b # 0
DivT(a, b) ==
  Sgn(a) * Sgn(b) * LongDiv(Abs(a) \div Abs(b), Abs(a) % Abs(b), Abs(b), 6)

\* floor(a * b / TONE) for a, b >= 0 at the internal scale
MulT(a, b) ==
  LET ah == a \div TSPLIT
      al == a % TSPLIT
      bh == b \div TSPLIT
      bl == b % TSPLIT
  IN  ah * bh + (ah * bl + al * bh + (al * bl) \div TSPLIT) \div TSPLIT

LN2 == 693147           \* ln 2 at the internal scale

\* 1 + f + f^2/2! + ... for 0 <= f < ln 2 at the internal scale: term is
\* f^(n-1)/(n-1)!, acc the sum so far
RECURSIVE ExpSeries(_, _, _, _)
ExpSeries(f, term, n, acc) ==
  LET t == MulT(term, f) \div n
  IN  IF t = 0 THEN acc ELSE ExpSeries(f, t, n + 1, acc + t)

\* e^y for y at the internal scale (-21 < y < 12), as a number
ExpT(y) ==
  LET k  == y \div LN2
      f  == y - k * LN2
      ef == ExpSeries(f, TONE, 1, TONE)
  IN  IF k >= 0 THEN MulDiv(ef, 2 ^ k, GUARD)
      ELSE IF -k >= 31 THEN 0
      ELSE (ef \div (2 ^ (-k))) \div GUARD

\* Math.exp(x) of a number x < 12; e^x < 10^-8 is 0 at this resolution
ExpS(x) == IF x <= -20 * ONE THEN 0 ELSE ExpT(x * GUARD)

\* the k >= 0 with 2^k <= r < 2^(k+1), for a number r >= 1
RECURSIVE Pow2Below(_, _)
Pow2Below(r, k) == IF (2 ^ (k + 1)) * ONE > r THEN k ELSE Pow2Below(r, k + 1)

\* the least j >= 0 with r * 2^j >= 1, for a number 0 < r < 1
RECURSIVE Pow2Above(_, _)
Pow2Above(r, j) == IF r * (2 ^ j) >= ONE THEN j ELSE Pow2Above(r, j + 1)

\* z + z^3/3 + z^5/5 + ... (atanh z) at the internal scale: term is z^(n-2)
RECURSIVE AtanhSeries(_, _, _, _)
AtanhSeries(z2, term, n, acc) ==
  LET t == MulT(term, z2)
  IN  IF t = 0 THEN acc ELSE AtanhSeries(z2, t, n + 2, acc + t \div n)

\* ln r of a number r > 0, at the internal scale: r = m * 2^k with
\* 1 <= m < 2, ln m = 2 atanh((m - 1) / (m + 1))
LnT(r) ==
  LET k == IF r >= ONE THEN Pow2Below(r, 0) ELSE -Pow2Above(r, 0)
      m == IF r >= ONE THEN MulDiv(r, GUARD, 2 ^ k)
           ELSE r * (2 ^ (-k)) * GUARD
      z == DivT(m - TONE, m + TONE)
  IN  k * LN2 + 2 * AtanhSeries(MulT(z, z), z, 3, z)

\* Math.pow(r, e) for numbers r > 0 and e: exp(e * ln r)
PowS(r, e) == ExpT(MulDiv(LnT(r), e, ONE))

---------------------------------------------------------------------------
(* defaults.ts *)

\* BTU_PER_HR_TO_W = 0.29307107, as 2.9307 / 10
BTU_PER_HR_TO_W_X10 == 29307

BtuPerHrToW(btu) == MulS(btu, BTU_PER_HR_TO_W_X10) \div 10

Num(n) == n * ONE

Pct(n) == n * GUARD     \* n / 100 as a number

baseConfig ==
  [ burnerBtuPerHr           |-> Num(50000),
    convectivePlumeFraction  |-> Pct(70),
    ambientTempF             |-> Num(30),
    captureFraction          |-> Pct(85),
    windLossFraction         |-> 0,
    bypassFraction           |-> Pct(10),
    C_effective_W_per_K      |-> Num(17),
    inletDiameterIn          |-> Num(24),
    outletDiameterIn         |-> Num(3),
    emitterHeightIn          |-> Num(12),
    inletHeightAboveFlameIn  |-> Num(12),
    statorDropIn             |-> Num(5),
    etaRad                   |-> Pct(55),
    etaOut                   |-> Pct(65),
    humanAbsorptivity        |-> Pct(80),
    projectedAreaStandingM2  |-> Pct(70),
    projectedAreaSeatedM2    |-> Pct(50),
    distancesFromSurfaceFt   |-> <<Num(2), Num(3), Num(4), Num(5), Num(6), Num(7), Num(8)>> ]

\* { scenario, UA_W_per_K, ...baseConfig }: the spread comes last, so a key
\* of baseConfig overrides the literal's
Spread(lit, base) ==
  [k \in DOMAIN lit \cup DOMAIN base |->
     IF k \in DOMAIN base THEN base[k] ELSE lit[k]]

\* presetSmooth with the UA of the ramp preset
presetSmooth_rampUA ==
  Spread([scenario |-> "smooth", UA_W_per_K |-> Num(20)], baseConfig)

presetSmooth == Spread([scenario |-> "smooth", UA_W_per_K |-> Num(12)], baseConfig)

presetRamp == Spread([scenario |-> "ramp", UA_W_per_K |-> Num(20)], baseConfig)

presetStatorRamp ==
  Spread([scenario |-> "statorRamp", UA_W_per_K |-> Num(28)], baseConfig)

---------------------------------------------------------------------------
(* calc.ts *)

clamp(value, min, max) == Min(max, Max(min, value))

\* effectiveness with the "1 -" lost: the transmitted fraction exp(-UA / C)
effectiveness_transmitted(UA, C) ==
  IF C <= 0 THEN 0 ELSE ExpS(DivS(-UA, C))

\* effectiveness returning the limit of 1 - exp(-UA / C) as C falls to 0
effectiveness_limitOne(UA, C) ==
  IF C <= 0 THEN ONE ELSE ONE - ExpS(DivS(-UA, C))

\* effectiveness with the sign of the exponent lost: 1 - exp(UA / C)
effectiveness_expGrowth(UA, C) ==
  IF C <= 0 THEN 0 ELSE ONE - ExpS(DivS(UA, C))

effectiveness(UA, C) ==
  IF C <= 0 THEN 0 ELSE ONE - ExpS(DivS(-UA, C))

avgRadiusFt(inletDiameterIn, outletDiameterIn) ==
  LET rIn    == DivS(inletDiameterIn, Num(2))
      rOut   == DivS(outletDiameterIn, Num(2))
      rAvgIn == DivS(rIn + rOut, Num(2))
  IN  DivS(rAvgIn, Num(12))

\* a reference diameter of 3 in, the outlet of the presets
outletRefIn_presetOutlet == Num(3)

outletRefIn == Num(4)

OUTLET_FLOOR_IN == 5000     \* 0.5

\* outletDIn flooring the magnitude of the diameter
outletDIn_magnitude(c) == Max(OUTLET_FLOOR_IN, Abs(c.outletDiameterIn))

outletDIn(c) == Max(OUTLET_FLOOR_IN, c.outletDiameterIn)

diameterRatio(c) == DivS(outletDIn(c), outletRefIn)

BYPASS_EXPONENT == 8000     \* 0.8
BYPASS_SCALE_MIN == 6500    \* 0.65
BYPASS_SCALE_MAX == 17500   \* 1.75
UA_EXPONENT == 3500         \* 0.35
UA_SCALE_MIN == 8500        \* 0.85
UA_SCALE_MAX == 13500       \* 1.35
BYPASS_EFF_MAX == 9500      \* 0.95

bypassScale(c) ==
  clamp(PowS(diameterRatio(c), BYPASS_EXPONENT), BYPASS_SCALE_MIN, BYPASS_SCALE_MAX)

\* uaScale raising the ratio itself, not its reciprocal
uaScale_notInverted(c) ==
  clamp(PowS(diameterRatio(c), UA_EXPONENT), UA_SCALE_MIN, UA_SCALE_MAX)

uaScale(c) ==
  clamp(PowS(DivS(ONE, diameterRatio(c)), UA_EXPONENT), UA_SCALE_MIN, UA_SCALE_MAX)

\* bypassEff held to [0, 1] instead of [0, 0.95]
bypassEff_capOne(c) == clamp(MulS(c.bypassFraction, bypassScale(c)), 0, ONE)

bypassEff(c) == clamp(MulS(c.bypassFraction, bypassScale(c)), 0, BYPASS_EFF_MAX)

\* UA_eff taking the UA of the scenario tag where the tag names a preset
UA_eff_byScenario(c) ==
  LET ua == CASE c.scenario = "smooth"     -> Num(12)
              [] c.scenario = "ramp"       -> Num(20)
              [] c.scenario = "statorRamp" -> Num(28)
              [] OTHER                     -> c.UA_W_per_K
  IN  MulS(ua, uaScale(c))

UA_eff(c) == MulS(c.UA_W_per_K, uaScale(c))

burnerPowerW(c) == BtuPerHrToW(c.burnerBtuPerHr)

plumePowerW(c, burnerW) == MulS(burnerW, c.convectivePlumeFraction)

capturedPlumeW(c, plumeW) ==
  MulS(MulS(plumeW, c.captureFraction), ONE - c.windLossFraction)

\* capturedEffW with the bypassed share added instead of removed
capturedEffW_bypassAdded(capturedW, bypass) == MulS(capturedW, ONE + bypass)

capturedEffW(capturedW, bypass) == MulS(capturedW, ONE - bypass)

wallCapturedW(effW, e) == MulS(effW, e)

\* outletExhaustW with the operands of the subtraction exchanged
outletExhaustW_swapped(capturedW, wallW) == wallW - capturedW

outletExhaustW(capturedW, wallW) == capturedW - wallW

radiantOutW(c, wallW) == MulS(MulS(wallW, c.etaRad), c.etaOut)

FT_TO_M == 3048             \* 0.3048
TWO_PI == 62832             \* 2 * Math.PI

\* irradianceAt without the parentheses around the divisor:
\* radiantOutW / 2 * Math.PI * dM * dM
irradianceAt_noParentheses(radiantW, rAvgFt, sFt) ==
  LET dM == MulS(sFt + rAvgFt, FT_TO_M)
  IN  IF dM > 0 THEN MulS(MulS(MulS(DivS(radiantW, Num(2)), TWO_PI \div 2), dM), dM)
      ELSE 0

\* irradianceAt guarding against a zero distance only: dM # 0 for dM > 0
irradianceAt_nonZeroGuard(radiantW, rAvgFt, sFt) ==
  LET dM == MulS(sFt + rAvgFt, FT_TO_M)
  IN  IF dM # 0 THEN DivS(radiantW, MulS(MulS(TWO_PI, dM), dM)) ELSE 0

\* irradianceAt with the factor 2 of the hemisphere lost:
\* radiantOutW / (Math.PI * dM * dM)
irradianceAt_halfArea(radiantW, rAvgFt, sFt) ==
  LET dM == MulS(sFt + rAvgFt, FT_TO_M)
  IN  IF dM > 0 THEN DivS(radiantW, MulS(MulS(TWO_PI \div 2, dM), dM)) ELSE 0

\* the callback of the irradiance map: one entry
irradianceAt(radiantW, rAvgFt, sFt) ==
  LET dM == MulS(sFt + rAvgFt, FT_TO_M)
  IN  IF dM > 0 THEN DivS(radiantW, MulS(MulS(TWO_PI, dM), dM)) ELSE 0

\* irradiance mapping the distances in ascending order
irradiance_sorted(c, radiantW, rAvgFt) ==
  LET sorted == SortSeq(c.distancesFromSurfaceFt, LAMBDA a, b : a < b)
  IN  [i \in 1..Len(sorted) |-> irradianceAt(radiantW, rAvgFt, sorted[i])]

\* irradiance leaving out the entries with no positive physical distance
irradiance_dropsDegenerate(c, radiantW, rAvgFt) ==
  LET kept == SelectSeq(c.distancesFromSurfaceFt,
                        LAMBDA sFt : MulS(sFt + rAvgFt, FT_TO_M) > 0)
  IN  [i \in 1..Len(kept) |-> irradianceAt(radiantW, rAvgFt, kept[i])]

irradiance(c, radiantW, rAvgFt) ==
  [i \in 1..Len(c.distancesFromSurfaceFt) |->
     irradianceAt(radiantW, rAvgFt, c.distancesFromSurfaceFt[i])]

absorbedStandingW(c, irr) ==
  [i \in 1..Len(irr) |->
     MulS(MulS(irr[i], c.projectedAreaStandingM2), c.humanAbsorptivity)]

absorbedSeatedW(c, irr) ==
  [i \in 1..Len(irr) |->
     MulS(MulS(irr[i], c.projectedAreaSeatedM2), c.humanAbsorptivity)]

SQIN_TO_M2_E4 == 64516      \* 0.00064516 * 10^4
STACK_GAIN == 1200          \* 0.12
STACK_AREA_REF == 1000      \* 0.10
STACK_AREA_MIN == 7000      \* 0.7
STACK_AREA_MAX == 13000     \* 1.3

\* additionalEffectiveness with the sign of the exponent lost
additionalEffectiveness_signLost ==
  [h \in 1..6 |-> MulS(ONE - ExpS(DivS(Num(h), Num(3))), STACK_GAIN)]

\* 0.12 * (1 - Math.exp(-extensionIn / 3)) for the six extensions of the sweep
additionalEffectiveness ==
  [h \in 1..6 |-> MulS(ONE - ExpS(DivS(-Num(h), Num(3))), STACK_GAIN)]

\* (2 * Math.PI * radiusIn * extensionIn) * 0.00064516
additionalAreaM2(c, extensionIn) ==
  LET radiusIn == DivS(outletDIn(c), Num(2))
  IN  MulS(MulS(MulS(TWO_PI, radiusIn), Num(extensionIn)), SQIN_TO_M2_E4) \div ONE

\* the area factor without its clamp
areaFactor_unclamped(c, extensionIn) ==
  DivS(additionalAreaM2(c, extensionIn), STACK_AREA_REF)

areaFactor(c, extensionIn) ==
  clamp(DivS(additionalAreaM2(c, extensionIn), STACK_AREA_REF),
        STACK_AREA_MIN, STACK_AREA_MAX)

\* additionalCaptureW with the factor (extensionIn / 6) applied twice
additionalCaptureW_ratioTwice(c, effW, extensionIn) ==
  MulS(MulS(MulS(MulS(effW, additionalEffectiveness[extensionIn]),
                 DivS(Num(extensionIn), Num(6))),
            DivS(Num(extensionIn), Num(6))), areaFactor(c, extensionIn))

\* capturedEffW * additionalEffectiveness * (extensionIn / 6) * areaFactor
additionalCaptureW(c, effW, extensionIn) ==
  MulS(MulS(MulS(effW, additionalEffectiveness[extensionIn]),
            DivS(Num(extensionIn), Num(6))), areaFactor(c, extensionIn))

\* the callback of the sweep's map: the record of one extension
stackRecord(c, effW, wallW, extensionIn) ==
  LET additionalW == additionalCaptureW(c, effW, extensionIn)
      totalWallCapturedW == wallW + additionalW
  IN  [ extensionIn        |-> Num(extensionIn),
        additionalCaptureW |-> additionalW,
        totalWallCapturedW |-> totalWallCapturedW,
        totalRadiantOutW   |-> MulS(MulS(totalWallCapturedW, c.etaRad), c.etaOut) ]

stackExtensionAnalysis(c, effW, wallW) ==
  [extensionIn \in 1..6 |-> stackRecord(c, effW, wallW, extensionIn)]

\* calcResults with the diameter scaling left out: the configured bypass
\* fraction and UA are used as they are
calcResults_unscaled(c) ==
  LET burnerW   == burnerPowerW(c)
      plumeW    == plumePowerW(c, burnerW)
      capturedW == capturedPlumeW(c, plumeW)
      bypass    == c.bypassFraction
      ua        == c.UA_W_per_K
      effW      == capturedEffW(capturedW, bypass)
      e         == effectiveness(ua, c.C_effective_W_per_K)
      wallW     == wallCapturedW(effW, e)
      radiantW  == radiantOutW(c, wallW)
      rAvgFt    == avgRadiusFt(c.inletDiameterIn, c.outletDiameterIn)
      irr       == irradiance(c, radiantW, rAvgFt)
  IN  [ burnerPowerW           |-> burnerW,
        plumePowerW            |-> plumeW,
        capturedPlumeW         |-> capturedW,
        capturedEffW           |-> effW,
        bypassEff              |-> bypass,
        UA_eff                 |-> ua,
        eps                    |-> e,
        wallCapturedW          |-> wallW,
        outletExhaustW         |-> outletExhaustW(capturedW, wallW),
        radiantOutW            |-> radiantW,
        effectiveRadiusFt      |-> rAvgFt,
        irradiance_W_m2        |-> irr,
        absorbedStandingW      |-> absorbedStandingW(c, irr),
        absorbedSeatedW        |-> absorbedSeatedW(c, irr),
        stackExtensionAnalysis |-> stackExtensionAnalysis(c, effW, wallW) ]

\* calcResults applying the configured stack extension: its additional
\* capture is counted into the wall capture
calcResults_appliesExtension(c) ==
  LET burnerW   == burnerPowerW(c)
      plumeW    == plumePowerW(c, burnerW)
      capturedW == capturedPlumeW(c, plumeW)
      bypass    == bypassEff(c)
      ua        == UA_eff(c)
      effW      == capturedEffW(capturedW, bypass)
      e         == effectiveness(ua, c.C_effective_W_per_K)
      configured ==
        IF "stackExtensionIn" \in DOMAIN c THEN c.stackExtensionIn \div ONE ELSE 0
      wallW     == wallCapturedW(effW, e) +
                   (IF configured \in 1..6
                      THEN additionalCaptureW(c, effW, configured) ELSE 0)
      radiantW  == radiantOutW(c, wallW)
      rAvgFt    == avgRadiusFt(c.inletDiameterIn, c.outletDiameterIn)
      irr       == irradiance(c, radiantW, rAvgFt)
  IN  [ burnerPowerW           |-> burnerW,
        plumePowerW            |-> plumeW,
        capturedPlumeW         |-> capturedW,
        capturedEffW           |-> effW,
        bypassEff              |-> bypass,
        UA_eff                 |-> ua,
        eps                    |-> e,
        wallCapturedW          |-> wallW,
        outletExhaustW         |-> outletExhaustW(capturedW, wallW),
        radiantOutW            |-> radiantW,
        effectiveRadiusFt      |-> rAvgFt,
        irradiance_W_m2        |-> irr,
        absorbedStandingW      |-> absorbedStandingW(c, irr),
        absorbedSeatedW        |-> absorbedSeatedW(c, irr),
        stackExtensionAnalysis |-> stackExtensionAnalysis(c, effW, wallW) ]

calcResults(c) ==
  LET burnerW   == burnerPowerW(c)
      plumeW    == plumePowerW(c, burnerW)
      capturedW == capturedPlumeW(c, plumeW)
      bypass    == bypassEff(c)
      ua        == UA_eff(c)
      effW      == capturedEffW(capturedW, bypass)
      e         == effectiveness(ua, c.C_effective_W_per_K)
      wallW     == wallCapturedW(effW, e)
      radiantW  == radiantOutW(c, wallW)
      rAvgFt    == avgRadiusFt(c.inletDiameterIn, c.outletDiameterIn)
      irr       == irradiance(c, radiantW, rAvgFt)
  IN  [ burnerPowerW           |-> burnerW,
        plumePowerW            |-> plumeW,
        capturedPlumeW         |-> capturedW,
        capturedEffW           |-> effW,
        bypassEff              |-> bypass,
        UA_eff                 |-> ua,
        eps                    |-> e,
        wallCapturedW          |-> wallW,
        outletExhaustW         |-> outletExhaustW(capturedW, wallW),
        radiantOutW            |-> radiantW,
        effectiveRadiusFt      |-> rAvgFt,
        irradiance_W_m2        |-> irr,
        absorbedStandingW      |-> absorbedStandingW(c, irr),
        absorbedSeatedW        |-> absorbedSeatedW(c, irr),
        stackExtensionAnalysis |-> stackExtensionAnalysis(c, effW, wallW) ]

---------------------------------------------------------------------------
(* The earlier engine: calcResults without the diameter scaling, which     *)
(* uses the configured bypass fraction and UA as they are, and whose sweep *)
(* has no area factor.  It returns no capturedEffW, bypassEff, UA_eff, eps *)
(* or outletExhaustW.                                                      *)

\* the callback of the earlier sweep's map
simpleStackRecord(c, effW, wallW, extensionIn) ==
  LET additionalW ==
        MulS(MulS(effW, additionalEffectiveness[extensionIn]),
             DivS(Num(extensionIn), Num(6)))
      totalWallCapturedW == wallW + additionalW
  IN  [ extensionIn        |-> Num(extensionIn),
        additionalCaptureW |-> additionalW,
        totalWallCapturedW |-> totalWallCapturedW,
        totalRadiantOutW   |-> MulS(MulS(totalWallCapturedW, c.etaRad), c.etaOut) ]

calcResultsSimple(c) ==
  LET burnerW   == burnerPowerW(c)
      plumeW    == plumePowerW(c, burnerW)
      capturedW == capturedPlumeW(c, plumeW)
      effW      == capturedEffW(capturedW, c.bypassFraction)
      e         == effectiveness(c.UA_W_per_K, c.C_effective_W_per_K)
      wallW     == wallCapturedW(effW, e)
      radiantW  == radiantOutW(c, wallW)
      rAvgFt    == avgRadiusFt(c.inletDiameterIn, c.outletDiameterIn)
      irr       == irradiance(c, radiantW, rAvgFt)
  IN  [ burnerPowerW           |-> burnerW,
        plumePowerW            |-> plumeW,
        capturedPlumeW         |-> capturedW,
        wallCapturedW          |-> wallW,
        radiantOutW            |-> radiantW,
        effectiveRadiusFt      |-> rAvgFt,
        irradiance_W_m2        |-> irr,
        absorbedStandingW      |-> absorbedStandingW(c, irr),
        absorbedSeatedW        |-> absorbedSeatedW(c, irr),
        stackExtensionAnalysis |->
          [extensionIn \in 1..6 |-> simpleStackRecord(c, effW, wallW, extensionIn)] ]

---------------------------------------------------------------------------
(* One evaluation.  A caller (the application's render, a test) builds a   *)
(* configuration from a preset by spreading it and replacing fields, and   *)
(* calls calcResults on it once.                                           *)

NoResults == <<>>

\* { ...base, [field]: v, ... }: base with the fields of edits replaced
With(base, edits) ==
  [k \in DOMAIN base |-> IF k \in DOMAIN edits THEN edits[k] ELSE base[k]]

\* the call: const results = calcResults(cfg)
Evaluate ==
  /\ pc = "call"
  /\ results' = calcResults(cfg)
  /\ pc' = "done"
  /\ UNCHANGED <<cfg, heap, returned>>

Next == Evaluate

Returned == pc = "done"

---------------------------------------------------------------------------
(* Power chain: configurations that differ from the stator + ramp preset   *)
(* in burner power, the four fractions, UA and C.                          *)

PowerBurner == {Num(-1000), 0, Num(50000)}
PowerPlume == {0, Pct(70), ONE}
PowerCapture == {Pct(85), ONE, Pct(120)}
PowerWindLoss == {0, Pct(25), ONE}
PowerBypass == {0, Pct(10), ONE}
PowerUA == {Num(-12), 0, Num(28), Num(1000)}
PowerC == {Num(-5), 0, Num(17)}

PowerConfigs ==
  { With(presetStatorRamp,
         [ burnerBtuPerHr          |-> b,
           convectivePlumeFraction |-> fp,
           captureFraction         |-> fc,
           windLossFraction        |-> fw,
           bypassFraction          |-> fb,
           UA_W_per_K              |-> ua,
           C_effective_W_per_K     |-> cc ]) :
      b \in PowerBurner, fp \in PowerPlume, fc \in PowerCapture,
      fw \in PowerWindLoss, fb \in PowerBypass, ua \in PowerUA, cc \in PowerC }

InitPower ==
  /\ cfg \in PowerConfigs
  /\ results = NoResults
  /\ pc = "call"
  /\ heap = <<>>
  /\ returned = <<>>

SpecPower == InitPower /\ [][Next]_vars

---------------------------------------------------------------------------
(* Claims on the power chain *)

FractionsInRange(c) ==
  \A f \in {"convectivePlumeFraction", "captureFraction", "windLossFraction",
            "bypassFraction"} : 0 <= c[f] /\ c[f] <= ONE

ConservationOrdering(r) ==
  /\ r.wallCapturedW <= r.capturedEffW
  /\ r.capturedEffW <= r.capturedPlumeW
  /\ r.capturedPlumeW <= r.plumePowerW
  /\ r.plumePowerW <= r.burnerPowerW

AdjacentEqual(r) ==
  \/ r.wallCapturedW = r.capturedEffW
  \/ r.capturedEffW = r.capturedPlumeW
  \/ r.capturedPlumeW = r.plumePowerW
  \/ r.plumePowerW = r.burnerPowerW

\* some efficiency of the chain is at an end of its range
BoundaryEfficiency(c, r) ==
  \/ c.convectivePlumeFraction \in {0, ONE}
  \/ c.captureFraction \in {0, ONE}
  \/ c.windLossFraction \in {0, ONE}
  \/ r.bypassEff \in {0, BYPASS_EFF_MAX}
  \/ r.eps \in {0, ONE}

\* C1 as stated: for every configuration with the four fractions in [0,1]
\* the five powers are ordered, and two adjacent ones are equal only at a
\* boundary efficiency.
C1_AsStated ==
  (Returned /\ FractionsInRange(cfg)) =>
    /\ ConservationOrdering(results)
    /\ AdjacentEqual(results) => BoundaryEfficiency(cfg, results)

\* the four fractions are 0, 1 or between 0.01 and 0.99
FractionsOnGrid(c) ==
  \A f \in {"convectivePlumeFraction", "captureFraction", "windLossFraction",
            "bypassFraction"} :
    c[f] \in {0, ONE} \/ (Pct(1) <= c[f] /\ c[f] <= Pct(99))

\* C1 (amended): for every configuration with burner power >= 0, UA >= 0
\* and the four fractions in [0,1], wallCapturedW <= capturedEffW <=
\* capturedPlumeW <= plumePowerW <= burnerPowerW; when moreover the burner
\* power is at least 1 BTU/hr and each fraction is 0, 1 or between 0.01 and
\* 0.99, two adjacent terms are equal only at a boundary efficiency.
C1_ConservationOrdering ==
  (/\ Returned
   /\ FractionsInRange(cfg)
   /\ cfg.burnerBtuPerHr >= 0
   /\ cfg.UA_W_per_K >= 0) =>
    /\ ConservationOrdering(results)
    /\ (/\ cfg.burnerBtuPerHr >= ONE
        /\ FractionsOnGrid(cfg)
        /\ AdjacentEqual(results)) => BoundaryEfficiency(cfg, results)

C1_Witness ==
  /\ Returned
  /\ FractionsInRange(cfg)
  /\ cfg.burnerBtuPerHr > 0
  /\ cfg.UA_W_per_K > 0
  /\ 0 < results.wallCapturedW
  /\ results.wallCapturedW < results.capturedEffW
  /\ results.capturedEffW < results.capturedPlumeW
  /\ results.capturedPlumeW < results.plumePowerW
  /\ results.plumePowerW < results.burnerPowerW

\* C2 as stated: 0 <= eps < 1 for every UA >= 0 and C > 0, eps computed from
\* the effective UA and C; eps = 0 for every C <= 0.
C2_AsStated ==
  Returned =>
    /\ results.eps = effectiveness(results.UA_eff, cfg.C_effective_W_per_K)
    /\ (cfg.UA_W_per_K >= 0 /\ cfg.C_effective_W_per_K > 0) =>
         (0 <= results.eps /\ results.eps < ONE)
    /\ cfg.C_effective_W_per_K <= 0 => results.eps = 0

\* C2 (amended): for every UA >= 0 and C > 0, 0 <= eps <= 1, and eps < 1
\* as long as UA_eff <= 9 C; eps is computed from the effective UA and C;
\* eps = 0 for every C <= 0.
C2_EffectivenessBound ==
  Returned =>
    /\ results.eps = effectiveness(results.UA_eff, cfg.C_effective_W_per_K)
    /\ (cfg.UA_W_per_K >= 0 /\ cfg.C_effective_W_per_K > 0) =>
         /\ 0 <= results.eps
         /\ results.eps <= ONE
         /\ results.UA_eff <= 9 * cfg.C_effective_W_per_K => results.eps < ONE
    /\ cfg.C_effective_W_per_K <= 0 => results.eps = 0

C2_Witness ==
  /\ Returned
  /\ cfg.UA_W_per_K > 0
  /\ cfg.C_effective_W_per_K > 0
  /\ 0 < results.eps
  /\ results.eps < ONE

AllZero(s) == \A i \in 1..Len(s) : s[i] = 0

\* C6: for every configuration with C <= 0, eps = 0 and wallCapturedW = 0,
\* hence radiantOutW and every irradiance and absorbed-power entry are 0.
C6_DegenerateCapacitance ==
  (Returned /\ cfg.C_effective_W_per_K <= 0) =>
    /\ results.eps = 0
    /\ results.wallCapturedW = 0
    /\ results.radiantOutW = 0
    /\ AllZero(results.irradiance_W_m2)
    /\ AllZero(results.absorbedStandingW)
    /\ AllZero(results.absorbedSeatedW)

C6_Witness ==
  /\ Returned
  /\ cfg.C_effective_W_per_K < 0
  /\ cfg.UA_W_per_K > 0
  /\ results.capturedEffW > 0
  /\ Len(results.irradiance_W_m2) > 0
  /\ results.wallCapturedW = 0

---------------------------------------------------------------------------
(* Distances: configurations that differ from the stator + ramp preset in  *)
(* the distance list, the two diameters, the absorptivity, burner power    *)
(* and C.  Zero and negative values are included.                          *)

MaxDistances == 3

DistValues == {Num(-3), 0, Num(2), Num(5)}

DistLists ==
  {baseConfig.distancesFromSurfaceFt} \cup
  UNION { [1..k -> DistValues] : k \in 0..MaxDistances }

DistInlet == {Num(-24), Num(24)}
DistOutlet == {Num(-3), 0, Num(3)}
DistAbsorptivity == {-Pct(50), Pct(80)}
DistBurner == {Num(-1000), Num(50000)}
DistC == {0, Num(17)}

DistConfigs ==
  { With(presetStatorRamp,
         [ distancesFromSurfaceFt |-> ds,
           inletDiameterIn        |-> di,
           outletDiameterIn       |-> do,
           humanAbsorptivity      |-> ab,
           burnerBtuPerHr         |-> b,
           C_effective_W_per_K    |-> cc ]) :
      ds \in DistLists, di \in DistInlet, do \in DistOutlet,
      ab \in DistAbsorptivity, b \in DistBurner, cc \in DistC }

InitDist ==
  /\ cfg \in DistConfigs
  /\ results = NoResults
  /\ pc = "call"
  /\ heap = <<>>
  /\ returned = <<>>

SpecDist == InitDist /\ [][Next]_vars

---------------------------------------------------------------------------
(* Claims on the per-distance arrays *)

Distances == cfg.distancesFromSurfaceFt

\* (s + average radius) * 0.3048 of a result
PhysicalDistance(r, sFt) == MulS(sFt + r.effectiveRadiusFt, FT_TO_M)

StrictlyIncreasing(s) == \A i \in 1..Len(s) - 1 : s[i] < s[i + 1]

\* C3 as stated: within one result, for every pair of entries with
\* distance[i] < distance[j] both absorbed powers at i are at least those at
\* j, strictly so when the list is strictly increasing and radiantOutW > 0.
C3_AsStated ==
  Returned =>
    \A i, j \in 1..Len(Distances) :
      Distances[i] < Distances[j] =>
        /\ results.absorbedStandingW[i] >= results.absorbedStandingW[j]
        /\ results.absorbedSeatedW[i] >= results.absorbedSeatedW[j]
        /\ (StrictlyIncreasing(Distances) /\ results.radiantOutW > 0) =>
             /\ results.absorbedStandingW[i] > results.absorbedStandingW[j]
             /\ results.absorbedSeatedW[i] > results.absorbedSeatedW[j]

NonNegativeOccupant(c) ==
  /\ c.humanAbsorptivity >= 0
  /\ c.projectedAreaStandingM2 >= 0
  /\ c.projectedAreaSeatedM2 >= 0

\* distances no more than 1000 ft, no two closer than 0.01 ft
SeparatedDistances(s) ==
  \A i, j \in 1..Len(s) :
    /\ s[i] <= Num(1000)
    /\ i # j => Abs(s[i] - s[j]) >= Pct(1)

\* C3 (amended): within one result with radiantOutW >= 0 and absorptivity
\* and projected areas >= 0, for every pair of entries with distance[i] <
\* distance[j] and distance[i] + average radius >= 0.01 ft, both absorbed
\* powers at i are at least those at j; strictly so when the distances are
\* strictly increasing, at most 1000 ft and at least 0.01 ft apart,
\* radiantOutW >= 1 W and absorptivity and projected areas >= 0.01.
C3_MonotonicFalloff ==
  (Returned /\ results.radiantOutW >= 0 /\ NonNegativeOccupant(cfg)) =>
    \A i, j \in 1..Len(Distances) :
      (/\ Distances[i] < Distances[j]
       /\ Distances[i] + results.effectiveRadiusFt >= Pct(1)) =>
        /\ results.absorbedStandingW[i] >= results.absorbedStandingW[j]
        /\ results.absorbedSeatedW[i] >= results.absorbedSeatedW[j]
        /\ (/\ StrictlyIncreasing(Distances)
            /\ SeparatedDistances(Distances)
            /\ results.radiantOutW >= ONE
            /\ cfg.humanAbsorptivity >= Pct(1)
            /\ cfg.projectedAreaStandingM2 >= Pct(1)
            /\ cfg.projectedAreaSeatedM2 >= Pct(1)) =>
             /\ results.absorbedStandingW[i] > results.absorbedStandingW[j]
             /\ results.absorbedSeatedW[i] > results.absorbedSeatedW[j]

\* a strictly increasing list whose first entry lies behind the surface
C3_Witness ==
  /\ Returned
  /\ results.radiantOutW >= ONE
  /\ NonNegativeOccupant(cfg)
  /\ cfg # presetStatorRamp
  /\ Len(Distances) = 3
  /\ StrictlyIncreasing(Distances)
  /\ SeparatedDistances(Distances)
  /\ PhysicalDistance(results, Distances[1]) <= 0
  /\ Distances[2] + results.effectiveRadiusFt >= Pct(1)
  /\ results.absorbedStandingW[1] = 0
  /\ results.absorbedStandingW[2] > results.absorbedStandingW[3]
  /\ results.absorbedSeatedW[2] > results.absorbedSeatedW[3]
  /\ results.absorbedSeatedW[3] > 0

\* C5: the three per-distance arrays have the length of the distance list
\* and entry i of each is computed from distance i, whatever the order of
\* the list; an empty list gives three empty arrays.
C5_ArraysFollowDistances ==
  Returned =>
    /\ Len(results.irradiance_W_m2) = Len(Distances)
    /\ Len(results.absorbedStandingW) = Len(Distances)
    /\ Len(results.absorbedSeatedW) = Len(Distances)
    /\ \A i \in 1..Len(Distances) :
         /\ results.irradiance_W_m2[i] =
              irradianceAt(results.radiantOutW, results.effectiveRadiusFt, Distances[i])
         /\ results.absorbedStandingW[i] =
              MulS(MulS(results.irradiance_W_m2[i], cfg.projectedAreaStandingM2),
                   cfg.humanAbsorptivity)
         /\ results.absorbedSeatedW[i] =
              MulS(MulS(results.irradiance_W_m2[i], cfg.projectedAreaSeatedM2),
                   cfg.humanAbsorptivity)
    /\ Distances = <<>> =>
         /\ results.irradiance_W_m2 = <<>>
         /\ results.absorbedStandingW = <<>>
         /\ results.absorbedSeatedW = <<>>

\* an unsorted list with a repeated distance
C5_Witness ==
  /\ Returned
  /\ Len(Distances) = 3
  /\ Distances[1] > Distances[2]
  /\ Distances[3] = Distances[1]
  /\ results.irradiance_W_m2[1] > results.irradiance_W_m2[2]
  /\ results.irradiance_W_m2[3] = results.irradiance_W_m2[1]
  /\ results.absorbedStandingW[2] > 0

ScalarFields ==
  {"burnerPowerW", "plumePowerW", "capturedPlumeW", "capturedEffW", "bypassEff",
   "UA_eff", "eps", "wallCapturedW", "outletExhaustW", "radiantOutW",
   "effectiveRadiusFt"}

ArrayFields == {"irradiance_W_m2", "absorbedStandingW", "absorbedSeatedW"}

SweepFields ==
  {"extensionIn", "additionalCaptureW", "totalWallCapturedW", "totalRadiantOutW"}

\* a results record with every field of the Results type, each a number
CompleteResults(r, c) ==
  /\ DOMAIN r = ScalarFields \cup ArrayFields \cup {"stackExtensionAnalysis"}
  /\ \A f \in ScalarFields : r[f] \in Int
  /\ \A f \in ArrayFields :
       /\ DOMAIN r[f] = 1..Len(c.distancesFromSurfaceFt)
       /\ \A i \in DOMAIN r[f] : r[f][i] \in Int
  /\ DOMAIN r.stackExtensionAnalysis = 1..6
  /\ \A h \in 1..6 :
       /\ DOMAIN r.stackExtensionAnalysis[h] = SweepFields
       /\ \A f \in SweepFields : r.stackExtensionAnalysis[h][f] \in Int

\* C7: for every configuration, zero or negative diameters, C <= 0,
\* out-of-range fractions and zero or negative distances included, the call
\* returns, and returns a complete results record.
C7_AlwaysReturnsResults ==
  /\ pc \in {"call", "done"}
  /\ Returned => CompleteResults(results, cfg)

C7_Witness ==
  /\ Returned
  /\ cfg.outletDiameterIn <= 0
  /\ cfg.inletDiameterIn < 0
  /\ cfg.C_effective_W_per_K <= 0
  /\ cfg.humanAbsorptivity < 0
  /\ Len(Distances) = 3
  /\ Distances[1] = 0
  /\ Distances[2] < 0
  /\ Distances[3] > 0
  /\ CompleteResults(results, cfg)

---------------------------------------------------------------------------
(* Outlet diameter: configurations that differ from the stator + ramp      *)
(* preset in the outlet diameter, the bypass fraction, UA, C, burner power *)
(* and the radiant fraction.                                               *)

OutletValues ==
  {Num(-3), 0, Pct(30), Pct(50), Num(1), Num(2), Num(3), Num(4), Num(5), Num(6), Num(9)}

OutletBypass == {0, Pct(10), ONE, Pct(150)}
OutletUA == {0, Num(28), Num(1000)}
OutletC == {0, Num(17)}
OutletBurner == {Num(-1000), 0, Num(50000)}
OutletEtaRad == {0, Pct(55)}

OutletConfigs ==
  { With(presetStatorRamp,
         [ outletDiameterIn    |-> do,
           bypassFraction      |-> fb,
           UA_W_per_K          |-> ua,
           C_effective_W_per_K |-> cc,
           burnerBtuPerHr      |-> b,
           etaRad              |-> er ]) :
      do \in OutletValues, fb \in OutletBypass, ua \in OutletUA,
      cc \in OutletC, b \in OutletBurner, er \in OutletEtaRad }

InitOutlet ==
  /\ cfg \in OutletConfigs
  /\ results = NoResults
  /\ pc = "call"
  /\ heap = <<>>
  /\ returned = <<>>

SpecOutlet == InitOutlet /\ [][Next]_vars

---------------------------------------------------------------------------
(* Claims on the outlet diameter *)

\* the results of the same configuration with another outlet diameter
AtOutlet(d) == calcResults(With(cfg, [outletDiameterIn |-> d]))

SameCapture(r, q) ==
  /\ r.bypassEff = q.bypassEff
  /\ r.UA_eff = q.UA_eff
  /\ r.eps = q.eps
  /\ r.wallCapturedW = q.wallCapturedW
  /\ r.radiantOutW = q.radiantOutW

\* C8: an outlet diameter below 0.5 in (zero and negative included) is
\* replaced by 0.5 in before the diameter ratio is computed: bypassEff,
\* UA_eff, eps, wallCapturedW and radiantOutW are those of the same
\* configuration with outletDiameterIn = 0.5, and the ratio is not zero.
C8_OutletFloor ==
  (Returned /\ cfg.outletDiameterIn < OUTLET_FLOOR_IN) =>
    /\ outletDIn(cfg) = OUTLET_FLOOR_IN
    /\ diameterRatio(cfg) > 0
    /\ SameCapture(results, AtOutlet(OUTLET_FLOOR_IN))

C8_Witness ==
  /\ Returned
  /\ cfg.outletDiameterIn < 0
  /\ results.wallCapturedW > 0
  /\ results.bypassEff > 0
  /\ SameCapture(results, AtOutlet(OUTLET_FLOOR_IN))
  /\ ~SameCapture(results, AtOutlet(Num(3)))

SweepDiameters == {Num(d) : d \in 1..6}

NonConstantRadiantOut ==
  \E d1, d2 \in SweepDiameters : AtOutlet(d1).radiantOutW # AtOutlet(d2).radiantOutW

\* C9 as stated: for every configuration with positive captured plume
\* power, UA > 0, C > 0, bypassFraction > 0, etaRad > 0 and etaOut > 0, the
\* outlet diameters 1..6 in give at least two distinct radiantOutW.
C9_AsStated ==
  (/\ Returned
   /\ results.capturedPlumeW > 0
   /\ cfg.UA_W_per_K > 0
   /\ cfg.C_effective_W_per_K > 0
   /\ cfg.bypassFraction > 0
   /\ cfg.etaRad > 0
   /\ cfg.etaOut > 0) => NonConstantRadiantOut

\* C9 (amended): for the baseline configuration, and for every
\* configuration with captured plume power >= 1 W, C > 0, UA >= C / 100,
\* 0.01 <= bypassFraction <= 1, etaRad >= 0.01 and etaOut >= 0.01, the
\* outlet diameters 1..6 in give at least two distinct radiantOutW.
C9_DiameterSensitivity ==
  /\ (Returned /\ cfg = presetStatorRamp) => NonConstantRadiantOut
  /\ (/\ Returned
      /\ results.capturedPlumeW >= ONE
      /\ cfg.C_effective_W_per_K > 0
      /\ 100 * cfg.UA_W_per_K >= cfg.C_effective_W_per_K
      /\ cfg.bypassFraction >= Pct(1)
      /\ cfg.bypassFraction <= ONE
      /\ cfg.etaRad >= Pct(1)
      /\ cfg.etaOut >= Pct(1)) => NonConstantRadiantOut

C9_Witness ==
  /\ Returned
  /\ cfg # presetStatorRamp
  /\ results.capturedPlumeW >= ONE
  /\ cfg.C_effective_W_per_K > 0
  /\ cfg.UA_W_per_K > cfg.C_effective_W_per_K
  /\ cfg.bypassFraction = ONE
  /\ cfg.etaRad >= Pct(1)
  /\ AtOutlet(Num(1)).radiantOutW > AtOutlet(Num(6)).radiantOutW

\* every fraction of the configuration that enters the powers
AllFractionsInRange(c) ==
  /\ FractionsInRange(c)
  /\ 0 <= c.etaRad /\ c.etaRad <= ONE
  /\ 0 <= c.etaOut /\ c.etaOut <= ONE

\* C10: with burner power >= 0, fractions in [0,1], UA >= 0 and C > 0 and
\* all other fields fixed, a larger outlet diameter gives no smaller
\* effective bypass fraction and no larger effective UA, and wallCapturedW
\* and radiantOutW do not increase with the outlet diameter.
C10_OutletDirection ==
  (/\ Returned
   /\ cfg.burnerBtuPerHr >= 0
   /\ AllFractionsInRange(cfg)
   /\ cfg.UA_W_per_K >= 0
   /\ cfg.C_effective_W_per_K > 0) =>
    \A d \in OutletValues :
      cfg.outletDiameterIn < d =>
        LET larger == AtOutlet(d)
        IN  /\ results.bypassEff <= larger.bypassEff
            /\ results.UA_eff >= larger.UA_eff
            /\ results.wallCapturedW >= larger.wallCapturedW
            /\ results.radiantOutW >= larger.radiantOutW

C10_Witness ==
  /\ Returned
  /\ cfg.burnerBtuPerHr > 0
  /\ AllFractionsInRange(cfg)
  /\ cfg.UA_W_per_K > 0
  /\ cfg.C_effective_W_per_K > 0
  /\ cfg.outletDiameterIn = Num(3)
  /\ results.bypassEff < AtOutlet(Num(5)).bypassEff
  /\ results.UA_eff > AtOutlet(Num(5)).UA_eff
  /\ results.wallCapturedW > AtOutlet(Num(5)).wallCapturedW
  /\ results.radiantOutW > AtOutlet(Num(5)).radiantOutW

---------------------------------------------------------------------------
(* Stack sweep: configurations that differ from the stator + ramp preset   *)
(* in the outlet diameter, burner power, bypass fraction, UA, C and the    *)
(* two delivery fractions.                                                 *)

StackOutlet == {Num(-3), Num(3), Num(6), Num(9), Num(12), Num(24)}
StackBurner == {Num(-1000), 0, Num(50000)}
StackBypass == {0, Pct(10), ONE}
StackUA == {0, Num(28)}
StackC == {0, Num(17)}
StackEtaRad == {0, Pct(55)}
StackEtaOut == {0, Pct(65)}

StackConfigs ==
  { With(presetStatorRamp,
         [ outletDiameterIn    |-> do,
           burnerBtuPerHr      |-> b,
           bypassFraction      |-> fb,
           UA_W_per_K          |-> ua,
           C_effective_W_per_K |-> cc,
           etaRad              |-> er,
           etaOut              |-> eo ]) :
      do \in StackOutlet, b \in StackBurner, fb \in StackBypass,
      ua \in StackUA, cc \in StackC, er \in StackEtaRad, eo \in StackEtaOut }

InitStack ==
  /\ cfg \in StackConfigs
  /\ results = NoResults
  /\ pc = "call"
  /\ heap = <<>>
  /\ returned = <<>>

SpecStack == InitStack /\ [][Next]_vars

---------------------------------------------------------------------------
(* Claims on the stack sweep *)

Sweep == results.stackExtensionAnalysis

\* C11: for every configuration with capturedEffW >= 0 and every extension
\* 1..6 the sweep's additionalCaptureW is at most 15% of capturedEffW; the
\* additional-effectiveness term is below 0.12 and the area factor within
\* [0.7, 1.3].
C11_StackSweepBound ==
  Returned =>
    \A h \in 1..6 :
      /\ additionalEffectiveness[h] < STACK_GAIN
      /\ STACK_AREA_MIN <= areaFactor(cfg, h)
      /\ areaFactor(cfg, h) <= STACK_AREA_MAX
      /\ results.capturedEffW >= 0 =>
           Sweep[h].additionalCaptureW <= MulS(results.capturedEffW, Pct(15))

\* a wide outlet: the area factor runs from its floor to its cap and the
\* longest extension adds more than 13% of capturedEffW
C11_Witness ==
  /\ Returned
  /\ results.capturedEffW > 0
  /\ areaFactor(cfg, 1) = STACK_AREA_MIN
  /\ areaFactor(cfg, 6) = STACK_AREA_MAX
  /\ Sweep[6].additionalCaptureW > MulS(results.capturedEffW, Pct(13))
  /\ Sweep[6].additionalCaptureW <= MulS(results.capturedEffW, Pct(15))

\* 0.12 * (1 - e^(-h/3)) * (h/6) * P_effective, the formula of the
\* documentation
DocumentedCapture(h) ==
  MulS(MulS(results.capturedEffW, additionalEffectiveness[h]),
       DivS(Num(h), Num(6)))

\* C18: for every extension 1..6 the additionalCaptureW of the sweep equals
\* 0.12 * (1 - e^(-h/3)) * (h/6) * capturedEffW, with no further factor.
C18_AsStated ==
  Returned =>
    \A h \in 1..6 : Sweep[h].additionalCaptureW = DocumentedCapture(h)

\* the gain of the sweep from extension h to h + 1
Gain(h) == Sweep[h + 1].additionalCaptureW - Sweep[h].additionalCaptureW

\* C19: for capturedEffW > 0 the gain from one more inch does not increase
\* with the extension over 1..5.
C19_AsStated ==
  (Returned /\ results.capturedEffW > 0) =>
    \A h \in 1..4 : Gain(h + 1) <= Gain(h)

\* C20: for capturedEffW > 0 the sweep's additionalCaptureW and
\* totalWallCapturedW, and for etaRad, etaOut > 0 its totalRadiantOutW, are
\* strictly increasing in the extension over 1..6.
C20_EachInchCapturesMore ==
  (Returned /\ results.capturedEffW > 0) =>
    \A h \in 1..5 :
      /\ Sweep[h].additionalCaptureW < Sweep[h + 1].additionalCaptureW
      /\ Sweep[h].totalWallCapturedW < Sweep[h + 1].totalWallCapturedW
      /\ (cfg.etaRad > 0 /\ cfg.etaOut > 0) =>
           Sweep[h].totalRadiantOutW < Sweep[h + 1].totalRadiantOutW

C20_Witness ==
  /\ Returned
  /\ results.capturedEffW > 0
  /\ results.wallCapturedW > 0
  /\ cfg.etaRad > 0
  /\ cfg.etaOut > 0
  /\ areaFactor(cfg, 1) < areaFactor(cfg, 6)
  /\ 0 < Sweep[1].additionalCaptureW
  /\ Sweep[1].additionalCaptureW < Sweep[6].additionalCaptureW
  /\ results.wallCapturedW < Sweep[1].totalWallCapturedW
  /\ Sweep[1].totalRadiantOutW < Sweep[6].totalRadiantOutW

---------------------------------------------------------------------------
(* The application (App_NEW.tsx): the configuration is React state that    *)
(* starts as the stator + ramp preset; each render evaluates calcResults   *)
(* on it; between renders a handler replaces it by a preset or by a copy   *)
(* with one field replaced.                                                *)

presets ==
  [ smooth     |-> presetSmooth,
    ramp       |-> presetRamp,
    statorRamp |-> presetStatorRamp ]

AppStackExtension == {Num(v) : v \in 0..6}
AppOutlet == {Num(2), Num(3), Num(5)}
AppBypass == {Pct(10), Pct(25)}

\* applyPreset(p) for p # 'custom'
applyPreset(p) ==
  /\ pc = "done"
  /\ cfg' = presets[p]
  /\ results' = NoResults
  /\ pc' = "call"
  /\ UNCHANGED <<heap, returned>>

\* onChange of a number field: setCfg({ ...cfg, [field]: v })
SetField(field, v) ==
  /\ pc = "done"
  /\ cfg' = Spread(cfg, [f \in {field} |-> v])
  /\ results' = NoResults
  /\ pc' = "call"
  /\ UNCHANGED <<heap, returned>>

SetStackExtensionIn == \E v \in AppStackExtension : SetField("stackExtensionIn", v)

SetOutletDiameterIn == \E v \in AppOutlet : SetField("outletDiameterIn", v)

SetBypassFraction == \E v \in AppBypass : SetField("bypassFraction", v)

InitApp ==
  /\ cfg = presetStatorRamp
  /\ results = NoResults
  /\ pc = "call"
  /\ heap = <<>>
  /\ returned = <<>>

NextApp ==
  \/ \E p \in DOMAIN presets : applyPreset(p)
  \/ SetStackExtensionIn
  \/ SetOutletDiameterIn
  \/ SetBypassFraction
  \/ Evaluate

SpecApp == InitApp /\ [][NextApp]_vars

---------------------------------------------------------------------------
(* Claims on the configured stack extension *)

\* cfg with the Stack Extension field set to v
WithStackExtension(v) == Spread(cfg, [stackExtensionIn |-> v])

\* the baseline fields are those computed from the power chain alone
BaselineFromChain ==
  /\ results.wallCapturedW = wallCapturedW(results.capturedEffW, results.eps)
  /\ results.radiantOutW = radiantOutW(cfg, results.wallCapturedW)
  /\ results.irradiance_W_m2 =
       irradiance(cfg, results.radiantOutW, results.effectiveRadiusFt)
  /\ results.absorbedStandingW = absorbedStandingW(cfg, results.irradiance_W_m2)
  /\ results.absorbedSeatedW = absorbedSeatedW(cfg, results.irradiance_W_m2)

C13_AsStated ==
  (Returned /\ cfg = Spread(presetStatorRamp, [stackExtensionIn |-> Num(6)])) =>
    results # calcResults(Spread(presetStatorRamp, [stackExtensionIn |-> 0]))

---------------------------------------------------------------------------
(* Claims on the presets *)

\* the fields of the Config type
ConfigFields ==
  {"scenario", "burnerBtuPerHr", "convectivePlumeFraction", "ambientTempF",
   "captureFraction", "windLossFraction", "bypassFraction",
   "C_effective_W_per_K", "inletDiameterIn", "outletDiameterIn",
   "emitterHeightIn", "inletHeightAboveFlameIn", "statorDropIn",
   "stackExtensionIn", "UA_W_per_K", "etaRad", "etaOut", "humanAbsorptivity",
   "projectedAreaStandingM2", "projectedAreaSeatedM2", "distancesFromSurfaceFt"}

\* the UA of each scenario in the assumptions reference
DocumentedUA == [smooth |-> Num(12), ramp |-> Num(20), statorRamp |-> Num(28)]

\* the defaults of the assumptions reference
DocumentedDefaults(c) ==
  /\ c.burnerBtuPerHr = Num(50000)
  /\ c.convectivePlumeFraction = Pct(70)
  /\ c.captureFraction = Pct(85)
  /\ c.bypassFraction = Pct(10)
  /\ c.C_effective_W_per_K = Num(17)
  /\ c.etaRad = Pct(55)
  /\ c.etaOut = Pct(65)
  /\ c.humanAbsorptivity = Pct(80)
  /\ c.projectedAreaStandingM2 = Pct(70)
  /\ c.projectedAreaSeatedM2 = Pct(50)

\* a configuration without its scenario and UA
OtherFields(c) == [k \in DOMAIN c \ {"scenario", "UA_W_per_K"} |-> c[k]]

\* C16: a configuration fresh from the preset factory of scenario p has
\* scenario p and the UA 12, 20, 28 of smooth, ramp, statorRamp, the
\* documented defaults, and every other field equal to that of the other
\* presets; baseConfig holds no scenario or UA to override the preset's.
C16_Presets ==
  \A p \in DOMAIN presets :
    cfg = presets[p] =>
      /\ cfg.scenario = p
      /\ cfg.UA_W_per_K = DocumentedUA[p]
      /\ DocumentedDefaults(cfg)
      /\ \A q \in DOMAIN presets : OtherFields(presets[q]) = OtherFields(cfg)
      /\ OtherFields(cfg) = baseConfig
      /\ DOMAIN baseConfig \cap {"scenario", "UA_W_per_K"} = {}

\* the smooth preset was applied and evaluated
C16_Witness ==
  /\ Returned
  /\ cfg = presets["smooth"]
  /\ cfg.scenario = "smooth"
  /\ cfg.UA_W_per_K = Num(12)
  /\ cfg # presetStatorRamp
  /\ OtherFields(cfg) = OtherFields(presetStatorRamp)

\* C17: a configuration fresh from a preset factory defines stackExtensionIn
\* as 0, and so defines every field of the Config type.
C17_AsStated ==
  \A p \in DOMAIN presets :
    cfg = presets[p] =>
      /\ "stackExtensionIn" \in DOMAIN cfg
      /\ cfg.stackExtensionIn = 0
      /\ DOMAIN cfg = ConfigFields

---------------------------------------------------------------------------
(* Informational fields: configurations that differ from the stator + ramp *)
(* preset in the scenario tag, the ambient temperature, the three          *)
(* heights, UA and the outlet diameter.                                    *)

InfoValues ==
  [ scenario                |-> {"smooth", "ramp", "statorRamp", "custom"},
    ambientTempF            |-> {Num(-40), Num(30), Num(100)},
    emitterHeightIn         |-> {0, Num(12)},
    inletHeightAboveFlameIn |-> {0, Num(12)},
    statorDropIn            |-> {0, Num(5)} ]

InfoUA == {Num(12), Num(28)}
InfoOutlet == {Num(3), Num(5)}

InfoConfigs ==
  { With(presetStatorRamp,
         [ scenario                |-> sc,
           ambientTempF            |-> ta,
           emitterHeightIn         |-> he,
           inletHeightAboveFlameIn |-> hi,
           statorDropIn            |-> sd,
           UA_W_per_K              |-> ua,
           outletDiameterIn        |-> do ]) :
      sc \in InfoValues.scenario, ta \in InfoValues.ambientTempF,
      he \in InfoValues.emitterHeightIn,
      hi \in InfoValues.inletHeightAboveFlameIn,
      sd \in InfoValues.statorDropIn, ua \in InfoUA, do \in InfoOutlet }

InitInfo ==
  /\ cfg \in InfoConfigs
  /\ results = NoResults
  /\ pc = "call"
  /\ heap = <<>>
  /\ returned = <<>>

SpecInfo == InitInfo /\ [][Next]_vars

---------------------------------------------------------------------------
(* Calls followed by reference.  A configuration object holds its distance *)
(* list by reference; every map of calc.ts returns a new array, and the    *)
(* results object holds those arrays by reference.  Calls are synchronous, *)
(* so several callers interleave call by call.                             *)

MaxCalls == 3

\* the arrays that exist before any call: at address 1 the list of
\* baseConfig, which the configurations of all presets share (the spread
\* copies the reference), at address 2 a list a caller made
InitialHeap == <<baseConfig.distancesFromSurfaceFt, <<Num(5), Num(2)>>>>

\* the fields of a results object that hold arrays
ResultArrayFields == ArrayFields \cup {"stackExtensionAnalysis"}

\* configuration objects: the fields, the distance list by address
CallConfigs ==
  { [fields |-> f, list |-> a] :
      f \in {presetSmooth, presetStatorRamp,
             With(presetStatorRamp, [outletDiameterIn |-> Num(5)])},
      a \in DOMAIN InitialHeap }

\* the configuration as calcResults reads it through the reference
Deref(c, h) == With(c.fields, [distancesFromSurfaceFt |-> h[c.list]])

\* a map that fills one buffer kept between calls instead of a new array
MapTarget_scratch(h, src) == Len(InitialHeap) + 1

\* Array.prototype.map on the array at src: the address of the array it
\* returns, a new one
MapTarget(h, src) == Len(h) + 1

\* the heap with arr at address a
Store(h, a, arr) ==
  IF a \in DOMAIN h THEN [h EXCEPT ![a] = arr] ELSE Append(h, arr)

\* src.map(...) returning arr: the heap with the returned array, and its
\* address
MapInto(h, src, arr) ==
  [heap |-> Store(h, MapTarget(h, src), arr), at |-> MapTarget(h, src)]

\* the arrays one call on c builds for the results r, in the order of
\* calc.ts: irradiance from the distance list, the two absorbed arrays from
\* irradiance, the sweep from the literal [1, 2, 3, 4, 5, 6]
Allocations(h, c, r) ==
  LET irr == MapInto(h, c.list, r.irradiance_W_m2)
      st  == MapInto(irr.heap, irr.at, r.absorbedStandingW)
      se  == MapInto(st.heap, irr.at, r.absorbedSeatedW)
      lit == [heap |-> Append(se.heap, <<1, 2, 3, 4, 5, 6>>),
              at   |-> Len(se.heap) + 1]
      sw  == MapInto(lit.heap, lit.at, r.stackExtensionAnalysis)
  IN  [ heap                   |-> sw.heap,
        irradiance_W_m2        |-> irr.at,
        absorbedStandingW      |-> st.at,
        absorbedSeatedW        |-> se.at,
        stackExtensionAnalysis |-> sw.at ]

\* one call of calcResults on the configuration object c
Call(c) ==
  /\ Len(returned) < MaxCalls
  /\ cfg' = Deref(c, heap)
  /\ results' = calcResults(cfg')
  /\ pc' = "done"
  /\ LET built == Allocations(heap, c, results')
     IN  /\ heap' = built.heap
         /\ returned' = Append(returned,
              [f \in {"cfg"} \cup ResultArrayFields |->
                 IF f = "cfg" THEN c ELSE built[f]])

InitCalls ==
  /\ cfg = presetStatorRamp
  /\ results = NoResults
  /\ pc = "call"
  /\ heap = InitialHeap
  /\ returned = <<>>

NextCalls == \E c \in CallConfigs : Call(c)

SpecCalls == InitCalls /\ [][NextCalls]_vars

---------------------------------------------------------------------------
(* Claims on the isolation of calls *)

\* the addresses of the arrays of one results object
ResultArrays(ret) == {ret[f] : f \in ResultArrayFields}

\* C15: no call writes to a configuration (every distance list is as it was
\* before the first call); the arrays of each results object are new: four
\* different addresses, none a distance list, none an array of another
\* call's results; and after any sequence of calls the arrays of each call
\* hold what that call returns alone.
C15_IsolatedCalls ==
  /\ \A a \in DOMAIN InitialHeap : heap[a] = InitialHeap[a]
  /\ \A i \in DOMAIN returned :
       /\ Cardinality(ResultArrays(returned[i])) = 4
       /\ ResultArrays(returned[i]) \cap DOMAIN InitialHeap = {}
       /\ \A j \in DOMAIN returned \ {i} :
            ResultArrays(returned[i]) \cap ResultArrays(returned[j]) = {}
       /\ LET alone == calcResults(Deref(returned[i].cfg, InitialHeap))
          IN  \A f \in ResultArrayFields : heap[returned[i][f]] = alone[f]

\* the same configuration object called twice with a call on another
\* configuration sharing its distance list in between
C15_Witness ==
  /\ Len(returned) = 3
  /\ returned[1].cfg = returned[3].cfg
  /\ returned[2].cfg.list = returned[1].cfg.list
  /\ returned[2].cfg.fields # returned[1].cfg.fields
  /\ returned[1].irradiance_W_m2 # returned[3].irradiance_W_m2
  /\ heap[returned[1].irradiance_W_m2] = heap[returned[3].irradiance_W_m2]
  /\ heap[returned[1].irradiance_W_m2] # heap[returned[2].irradiance_W_m2]
  /\ Len(heap[returned[1].irradiance_W_m2]) = Len(heap[returned[1].cfg.list])

---------------------------------------------------------------------------
(* Effective bypass: configurations that differ from the stator + ramp     *)
(* preset in the bypass fraction (negative and above 1 included), the      *)
(* outlet diameter, burner power and wind loss.                            *)

BypassConfigs ==
  { With(presetStatorRamp,
         [ bypassFraction   |-> fb,
           outletDiameterIn |-> do,
           burnerBtuPerHr   |-> b,
           windLossFraction |-> fw ]) :
      fb \in {-Num(2), -Pct(50), 0, Pct(1), Pct(10), Pct(50), Pct(95), ONE,
              Pct(150), Num(20)},
      do \in {Num(-3), 0, Pct(50), Num(1), Num(2), Num(3), Num(4), Num(6),
              Num(9), Num(24)},
      b  \in {Num(-1000), 0, Num(50000)},
      fw \in {0, ONE, Pct(150)} }

InitBypass ==
  /\ cfg \in BypassConfigs
  /\ results = NoResults
  /\ pc = "call"
  /\ heap = <<>>
  /\ returned = <<>>

SpecBypass == InitBypass /\ [][Next]_vars

---------------------------------------------------------------------------
(* Claims on the effective bypass *)

---------------------------------------------------------------------------
(* Claims on the outlet exhaust (power chain) *)

---------------------------------------------------------------------------
(* Degenerate distances: configurations whose average radius is a whole    *)
(* number of feet and whose distances are whole feet, so that the physical *)
(* distance of an entry can be exactly zero, negative or positive.         *)

DegenerateValues == {Num(-2), Num(-1), 0, Num(1)}

DegenerateConfigs ==
  { With(presetStatorRamp,
         [ distancesFromSurfaceFt |-> ds,
           inletDiameterIn        |-> di,
           outletDiameterIn       |-> 0,
           burnerBtuPerHr         |-> b,
           humanAbsorptivity      |-> ab ]) :
      ds \in UNION { [1..k -> DegenerateValues] : k \in 0..MaxDistances },
      di \in {Num(-48), 0, Num(48)},
      b  \in {Num(-1000), Num(50000)},
      ab \in {-Pct(50), Pct(80)} }

InitDegenerate ==
  /\ cfg \in DegenerateConfigs
  /\ results = NoResults
  /\ pc = "call"
  /\ heap = <<>>
  /\ returned = <<>>

SpecDegenerate == InitDegenerate /\ [][Next]_vars

---------------------------------------------------------------------------
(* Claims on degenerate distances *)

\* the sequence s without its entry i
RemoveAt(s, i) == [k \in 1..Len(s) - 1 |-> IF k < i THEN s[k] ELSE s[k + 1]]

\* the results of the same configuration without entry i of its distances
WithoutDistance(i) ==
  calcResults(With(cfg, [distancesFromSurfaceFt |-> RemoveAt(Distances, i)]))

\* C23: for every entry whose physical distance (s + average radius) *
\* 0.3048 is <= 0, irradiance and both absorbed powers of that entry are
\* exactly 0, and every other entry of the result is what it is when the
\* degenerate entry is absent from the list.
C23_DegenerateDistance ==
  Returned =>
    \A i \in 1..Len(Distances) :
      PhysicalDistance(results, Distances[i]) <= 0 =>
        /\ results.irradiance_W_m2[i] = 0
        /\ results.absorbedStandingW[i] = 0
        /\ results.absorbedSeatedW[i] = 0
        /\ \A f \in ArrayFields :
             RemoveAt(results[f], i) = WithoutDistance(i)[f]

\* a list with an entry on the axis and an entry behind it, around an entry
\* in front of the surface
C23_Witness ==
  /\ Returned
  /\ results.radiantOutW > 0
  /\ cfg.humanAbsorptivity > 0
  /\ Len(Distances) = 3
  /\ PhysicalDistance(results, Distances[1]) = 0
  /\ PhysicalDistance(results, Distances[2]) > 0
  /\ PhysicalDistance(results, Distances[3]) < 0
  /\ results.irradiance_W_m2[1] = 0
  /\ results.irradiance_W_m2[3] = 0
  /\ results.absorbedStandingW[2] > 0
  /\ results.absorbedSeatedW[2] > 0

---------------------------------------------------------------------------
(* Claims on the records of the stack sweep *)

\* 2 * pi * r_outlet * h in m2 over 0.10, held to [0.7, 1.3], with r_outlet
\* half the floored outlet diameter
SweepAreaFactor(h) ==
  LET r    == DivS(Max(OUTLET_FLOOR_IN, cfg.outletDiameterIn), Num(2))
      area == MulS(MulS(MulS(TWO_PI, r), Num(h)), SQIN_TO_M2_E4) \div ONE
  IN  clamp(DivS(area, STACK_AREA_REF), STACK_AREA_MIN, STACK_AREA_MAX)

\* capturedEffW * 0.12 * (1 - e^(-h/3)) * (h/6) * areaFactor
SweepCapture(h) ==
  MulS(MulS(MulS(results.capturedEffW,
                 MulS(ONE - ExpS(DivS(-Num(h), Num(3))), STACK_GAIN)),
            DivS(Num(h), Num(6))),
       SweepAreaFactor(h))

---------------------------------------------------------------------------
(* Claims on the two engines (outlet diameter) *)

\* the fields the claim compares: the scalar powers both engines return, the
\* effective radius and the per-distance arrays
ComparedFields ==
  {"burnerPowerW", "plumePowerW", "capturedPlumeW", "wallCapturedW",
   "radiantOutW", "effectiveRadiusFt"} \cup ArrayFields

SameAsSimple(r, q) == \A f \in ComparedFields : r[f] = q[f]

\* C25: for every configuration with outletDiameterIn = 4 and
\* bypassFraction in [0, 0.95] both scaling factors are exactly 1 and
\* calcResults returns the same burnerPowerW, plumePowerW, capturedPlumeW,
\* wallCapturedW, radiantOutW, effectiveRadiusFt and per-distance arrays as
\* the engine that uses the configured bypass fraction and UA directly.
C25_ReferenceDiameterEquivalence ==
  (/\ Returned
   /\ cfg.outletDiameterIn = Num(4)
   /\ 0 <= cfg.bypassFraction
   /\ cfg.bypassFraction <= BYPASS_EFF_MAX) =>
    /\ bypassScale(cfg) = ONE
    /\ uaScale(cfg) = ONE
    /\ results.bypassEff = cfg.bypassFraction
    /\ results.UA_eff = cfg.UA_W_per_K
    /\ SameAsSimple(results, calcResultsSimple(cfg))

\* the two engines agree at 4 in on a configuration on which they differ at
\* 3 in
C25_Witness ==
  /\ Returned
  /\ cfg.outletDiameterIn = Num(4)
  /\ cfg.bypassFraction > 0
  /\ cfg.bypassFraction <= BYPASS_EFF_MAX
  /\ results.radiantOutW > 0
  /\ SameAsSimple(results, calcResultsSimple(cfg))
  /\ ~SameAsSimple(AtOutlet(Num(3)),
                   calcResultsSimple(With(cfg, [outletDiameterIn |-> Num(3)])))

---------------------------------------------------------------------------
(* Claims on the stack sweep's energy balance (power chain) *)

\* C26: for every configuration with fractions in [0,1], UA >= 0 and C > 0
\* and every extension 1..6, totalWallCapturedW never exceeds capturedEffW
\* (additionalCaptureW never exceeds capturedEffW - wallCapturedW), so
\* totalWallCapturedW never exceeds capturedPlumeW.
C26_AsStated ==
  (/\ Returned
   /\ FractionsInRange(cfg)
   /\ cfg.UA_W_per_K >= 0
   /\ cfg.C_effective_W_per_K > 0) =>
    \A h \in 1..6 :
      /\ Sweep[h].totalWallCapturedW <= results.capturedEffW
      /\ Sweep[h].additionalCaptureW <=
           results.capturedEffW - results.wallCapturedW
      /\ Sweep[h].totalWallCapturedW <= results.capturedPlumeW

---------------------------------------------------------------------------
(* Occupants near the surface: configurations that differ from the stator  *)
(* + ramp preset in the distance list (distances from 0 to 2 ft), the      *)
(* inlet diameter, the absorptivity, burner power and UA.                  *)

OccupantValues == {0, Pct(50), Num(1), Num(2)}

OccupantConfigs ==
  { With(presetStatorRamp,
         [ distancesFromSurfaceFt |-> ds,
           inletDiameterIn        |-> di,
           humanAbsorptivity      |-> ab,
           burnerBtuPerHr         |-> b,
           UA_W_per_K             |-> ua ]) :
      ds \in UNION { [1..k -> OccupantValues] : k \in 0..MaxDistances },
      di \in {Num(12), Num(24)},
      ab \in {0, Pct(80), ONE},
      b  \in {Num(-1000), Num(50000)},
      ua \in {Num(-12), Num(28)} }

InitOccupant ==
  /\ cfg \in OccupantConfigs
  /\ results = NoResults
  /\ pc = "call"
  /\ heap = <<>>
  /\ returned = <<>>

SpecOccupant == InitOccupant /\ [][Next]_vars

---------------------------------------------------------------------------
(* Claims on the occupants' absorbed power *)

\* fractions and absorptivity in [0,1], positive diameters, the projected
\* areas of the defaults
OccupantPrecondition(c) ==
  /\ AllFractionsInRange(c)
  /\ 0 <= c.humanAbsorptivity /\ c.humanAbsorptivity <= ONE
  /\ c.inletDiameterIn > 0
  /\ c.outletDiameterIn > 0
  /\ c.projectedAreaStandingM2 = baseConfig.projectedAreaStandingM2
  /\ c.projectedAreaSeatedM2 = baseConfig.projectedAreaSeatedM2

\* C27 as stated: for every configuration with fractions and absorptivity
\* in [0,1], positive diameters, the default projected areas and every
\* distance s >= 0, absorbedStandingW[i] <= radiantOutW and
\* absorbedSeatedW[i] <= radiantOutW.
C27_AsStated ==
  (Returned /\ OccupantPrecondition(cfg)) =>
    \A i \in 1..Len(Distances) :
      Distances[i] >= 0 =>
        /\ results.absorbedStandingW[i] <= results.radiantOutW
        /\ results.absorbedSeatedW[i] <= results.radiantOutW

\* 1.1 ft: from there on 2 * pi * d^2 exceeds the standing projected area
NearFieldFt == Pct(110)

\* C27 (amended): for every configuration with burner power >= 0, UA >= 0,
\* fractions and absorptivity in [0,1], positive diameters, the default
\* projected areas and every distance s >= 0 with s + average radius >=
\* 1.1 ft, absorbedStandingW[i] <= radiantOutW and absorbedSeatedW[i] <=
\* radiantOutW.
C27_AbsorptionBelowEmission ==
  (/\ Returned
   /\ OccupantPrecondition(cfg)
   /\ cfg.burnerBtuPerHr >= 0
   /\ cfg.UA_W_per_K >= 0) =>
    \A i \in 1..Len(Distances) :
      (/\ Distances[i] >= 0
       /\ Distances[i] + results.effectiveRadiusFt >= NearFieldFt) =>
        /\ results.absorbedStandingW[i] <= results.radiantOutW
        /\ results.absorbedSeatedW[i] <= results.radiantOutW

\* an occupant at the surface absorbs more than is emitted, one a foot away
\* most of it
C27_Witness ==
  /\ Returned
  /\ OccupantPrecondition(cfg)
  /\ cfg.burnerBtuPerHr > 0
  /\ cfg.UA_W_per_K > 0
  /\ Len(Distances) = 2
  /\ Distances[1] = 0
  /\ results.absorbedStandingW[1] > results.radiantOutW
  /\ Distances[2] + results.effectiveRadiusFt >= NearFieldFt
  /\ 2 * results.absorbedStandingW[2] > results.radiantOutW
  /\ results.absorbedStandingW[2] <= results.radiantOutW
  /\ results.absorbedSeatedW[2] > 0

---------------------------------------------------------------------------
(* Heat-transfer coefficient: configurations that differ from the stator + *)
(* ramp preset in UA (the UA of the three presets included), C, the two    *)
(* delivery fractions, burner power, the bypass fraction and the outlet    *)
(* diameter.                                                               *)

UAValues == {Num(-12), 0, Num(12), Num(20), Num(28), Num(40)}

UAConfigs ==
  { With(presetSmooth,
         [ UA_W_per_K          |-> ua,
           C_effective_W_per_K |-> cc,
           etaRad              |-> er,
           etaOut              |-> eo,
           burnerBtuPerHr      |-> b,
           bypassFraction      |-> fb,
           outletDiameterIn    |-> do ]) :
      ua \in UAValues,
      cc \in {0, Num(17)},
      er \in {-Pct(50), 0, Pct(55)},
      eo \in {Pct(65), ONE},
      b  \in {Num(-1000), Num(50000)},
      fb \in {Pct(10), Pct(150)},
      do \in {Num(3), Num(6)} }

InitUA ==
  /\ cfg \in UAConfigs \cup {presetSmooth, presetRamp, presetStatorRamp}
  /\ results = NoResults
  /\ pc = "call"
  /\ heap = <<>>
  /\ returned = <<>>

SpecUA == InitUA /\ [][Next]_vars

---------------------------------------------------------------------------
(* Claims on the heat-transfer coefficient *)

\* the results of the same configuration with another UA
AtUA(ua) == calcResults(With(cfg, [UA_W_per_K |-> ua]))

\* q has no smaller eps, wallCapturedW and radiantOutW than r
NoSmallerCapture(r, q) ==
  /\ r.eps <= q.eps
  /\ r.wallCapturedW <= q.wallCapturedW
  /\ r.radiantOutW <= q.radiantOutW

\* q has no smaller wallCapturedW, radiantOutW and absorbed-power entries
\* than r
RanksBelow(r, q) ==
  /\ r.wallCapturedW <= q.wallCapturedW
  /\ r.radiantOutW <= q.radiantOutW
  /\ \A i \in 1..Len(r.absorbedStandingW) :
       /\ r.absorbedStandingW[i] <= q.absorbedStandingW[i]
       /\ r.absorbedSeatedW[i] <= q.absorbedSeatedW[i]

PresetsRanked ==
  /\ RanksBelow(calcResults(presetSmooth), calcResults(presetRamp))
  /\ RanksBelow(calcResults(presetRamp), calcResults(presetStatorRamp))

\* C28 as stated: with all other fields fixed, positive captured plume
\* power and C > 0, a larger UA never yields a smaller eps, wallCapturedW
\* or radiantOutW; the presets rank smooth <= ramp <= statorRamp in
\* wallCapturedW, radiantOutW and every absorbed-power entry.
C28_AsStated ==
  /\ (/\ Returned
      /\ results.capturedPlumeW > 0
      /\ cfg.C_effective_W_per_K > 0) =>
       \A ua \in UAValues :
         cfg.UA_W_per_K < ua => NoSmallerCapture(results, AtUA(ua))
  /\ (Returned /\ cfg = presetSmooth) => PresetsRanked

\* C28 (amended): with all other fields fixed, positive captured plume
\* power, C > 0 and etaRad, etaOut >= 0, a larger UA never yields a smaller
\* eps, wallCapturedW or radiantOutW; the presets rank smooth <= ramp <=
\* statorRamp in wallCapturedW, radiantOutW and every absorbed-power entry.
C28_UARanking ==
  /\ (/\ Returned
      /\ results.capturedPlumeW > 0
      /\ cfg.C_effective_W_per_K > 0
      /\ cfg.etaRad >= 0
      /\ cfg.etaOut >= 0) =>
       \A ua \in UAValues :
         cfg.UA_W_per_K < ua => NoSmallerCapture(results, AtUA(ua))
  /\ (Returned /\ cfg = presetSmooth) => PresetsRanked

\* the smooth preset: each preset with a larger UA radiates more
C28_Witness ==
  /\ Returned
  /\ cfg = presetSmooth
  /\ results = calcResults(presetSmooth)
  /\ AtUA(Num(20)) = calcResults(presetRamp)
  /\ AtUA(Num(28)) = calcResults(presetStatorRamp)
  /\ results.eps < AtUA(Num(20)).eps
  /\ AtUA(Num(20)).eps < AtUA(Num(28)).eps
  /\ results.radiantOutW < AtUA(Num(20)).radiantOutW
  /\ AtUA(Num(20)).radiantOutW < AtUA(Num(28)).radiantOutW
  /\ results.absorbedSeatedW[7] < AtUA(Num(28)).absorbedSeatedW[7]

---------------------------------------------------------------------------
(* The preset factories (defaults.ts), by reference.  A caller calls the   *)
(* factories and changes the configurations they returned: it assigns to a *)
(* field, or appends to or overwrites an entry of the distance list.       *)
(* returned holds the objects the factories returned, heap the arrays, cfg *)
(* the configuration of the latest call as the caller read it on return.   *)

\* the address of the array of baseConfig.distancesFromSurfaceFt
baseDistances == 1

\* a preset that copies the list: [...baseConfig.distancesFromSurfaceFt]
presetList_copied(h) == Len(h) + 1

\* the list of a configuration made by { ..., ...baseConfig }: the spread
\* copies the value of the property, the reference to the array
presetList(h) == baseDistances

\* one call of the factory of scenario p
CallPreset(p) ==
  /\ Len(returned) < MaxCalls
  /\ heap' = Store(heap, presetList(heap), heap[baseDistances])
  /\ returned' = Append(returned, [fields |-> presets[p], list |-> presetList(heap)])
  /\ cfg' = Deref(returned'[Len(returned')], heap')
  /\ pc' = "done"
  /\ UNCHANGED results

\* config.UA_W_per_K = v on the i-th returned configuration
AssignField(i, v) ==
  /\ returned' = [returned EXCEPT ![i].fields.UA_W_per_K = v]
  /\ pc' = "call"
  /\ UNCHANGED <<cfg, results, heap>>

\* config.distancesFromSurfaceFt.push(v) on the i-th returned configuration
PushDistance(i, v) ==
  /\ Len(heap[returned[i].list]) <= Len(baseConfig.distancesFromSurfaceFt)
  /\ heap' = [heap EXCEPT ![returned[i].list] = Append(@, v)]
  /\ pc' = "call"
  /\ UNCHANGED <<cfg, results, returned>>

\* config.distancesFromSurfaceFt[0] = v on the i-th returned configuration
OverwriteDistance(i, v) ==
  /\ heap' = [heap EXCEPT ![returned[i].list][1] = v]
  /\ pc' = "call"
  /\ UNCHANGED <<cfg, results, returned>>

InitPresets ==
  /\ cfg = presetStatorRamp
  /\ results = NoResults
  /\ pc = "call"
  /\ heap = <<baseConfig.distancesFromSurfaceFt>>
  /\ returned = <<>>

NextPresets ==
  \/ \E p \in DOMAIN presets : CallPreset(p)
  \/ \E i \in DOMAIN returned : AssignField(i, Num(99))
  \/ \E i \in DOMAIN returned : PushDistance(i, Num(1))
  \/ \E i \in DOMAIN returned : OverwriteDistance(i, Num(1))

SpecPresets == InitPresets /\ [][NextPresets]_vars

---------------------------------------------------------------------------
(* Claims on the preset factories *)

\* a configuration without its distance list
ScalarPart(c) == [k \in DOMAIN c \ {"distancesFromSurfaceFt"} |-> c[k]]

\* C29 as stated: a configuration returned by a preset factory shares no
\* mutable part with baseConfig or with a configuration returned earlier,
\* and whatever was changed on the configurations returned earlier, a preset
\* call returns the configuration of its preset.
C29_AsStated ==
  /\ \A i \in DOMAIN returned :
       /\ returned[i].list # baseDistances
       /\ \A j \in DOMAIN returned : i # j => returned[i].list # returned[j].list
  /\ pc = "done" => cfg = presets[cfg.scenario]

\* C29 (amended): each preset call returns a new object whose fields are
\* those of its preset whatever was assigned to fields of configurations
\* returned earlier; its distance list is the one array of baseConfig,
\* shared with every configuration returned earlier, so the call returns
\* the list as earlier appends and overwrites left it, and the
\* configuration of its preset when there were none.
C29_PresetSharing ==
  /\ \A i \in DOMAIN returned : returned[i].list = baseDistances
  /\ pc = "done" =>
       /\ ScalarPart(cfg) = ScalarPart(presets[cfg.scenario])
       /\ cfg.distancesFromSurfaceFt = heap[baseDistances]
       /\ heap[baseDistances] = baseConfig.distancesFromSurfaceFt =>
            cfg = presets[cfg.scenario]

\* a third call after a field of the first configuration was assigned and
\* the list of the second was appended to and overwritten: the fields are
\* the preset's, the list is not
C29_Witness ==
  /\ pc = "done"
  /\ Len(returned) = 3
  /\ returned[1].fields.UA_W_per_K = Num(99)
  /\ cfg.scenario = returned[1].fields.scenario
  /\ cfg.UA_W_per_K = presets[cfg.scenario].UA_W_per_K
  /\ Len(cfg.distancesFromSurfaceFt) = Len(baseConfig.distancesFromSurfaceFt) + 1
  /\ cfg.distancesFromSurfaceFt[1] = Num(1)
  /\ cfg # presets[cfg.scenario]

=============================================================================
